---------------------------- MODULE Spec2Model ----------------------------
(***************************************************************************)
(* Model of the entry-management core of tui-journal (src/app/mod.rs):     *)
(* the App actor with its entry collection, filter, sorter and the         *)
(* undo/redo history, driving the persistence collaborator (DataProvider). *)
(*                                                                         *)
(* Encoding of Rust values:                                                *)
(*   String          a sequence of code units (naturals)                   *)
(*   Option<T>       <<>> for None, <<x>> for Some(x)                      *)
(*   Vec<T>          a sequence                                            *)
(*   HashSet<u32>    a set                                                 *)
(*   Result          [tag |-> "Ok" | "Err" | "Panic", val |-> Option<u32>] *)
(* Every operation of App is an operator from an App value (a record of    *)
(* all fields, the collaborator's storage included) to the App value after *)
(* the call; the actions apply these operators to the variables.           *)
(***************************************************************************)
EXTENDS Integers, Sequences, FiniteSets, TLC

VARIABLES
    entries,               \* App::entries: Vec<Entry>
    current_entry_id,      \* App::current_entry_id: Option<u32>
    selected_entries,      \* App::selected_entries: HashSet<u32>
    filtered_out_entries,  \* App::filtered_out_entries: HashSet<u32>
    filter,                \* App::filter: Option<Filter>
    sorter,                \* App::state.sorter
    undo_stack,            \* App::history (undo side)
    redo_stack,            \* App::history (redo side)
    store,                 \* the collaborator's durable entries
    next_id,               \* the collaborator's next fresh id
    calls,                 \* collaborator calls issued by the last operation
    failed,                \* a collaborator call of the last operation failed
    result,                \* what the last operation returned
    panicked,              \* the last operation aborted the process
    lastOp,                \* name of the last operation called
    steps,                 \* operations called so far
    cycle,                 \* progress of an edit; undo; redo; undo series
    trail,                 \* contents before each op of the current run of direct ops
    undone,                \* undo calls made since that run of direct ops
    scene,                 \* progress of an add; delete of that entry; undo series
    removed,               \* ids that have left the collection
    par,                   \* the parallel evaluation of the Filter, step by step
    drain                  \* the undo calls made in a row and the records they began with

vars == <<entries, current_entry_id, selected_entries, filtered_out_entries, filter, sorter,
          undo_stack, redo_stack, store, next_id, calls, failed, result, panicked,
          lastOp, steps, cycle, trail, undone, scene, removed, par, drain>>

-----------------------------------------------------------------------------
(* Bounds of the model *)

\* settings.history_limit, the capacity of each history stack
history_limit == 2

\* ids the collaborator can hand out before the model stops creating entries
MaxId == 3

\* operations the user issues in one session of the model
MaxSteps == 6

\* entries of a collection whose Filter is evaluated step by step
MaxParEntries == 2

\* workers the parallel iterator runs on
MaxWorkers == 2

-----------------------------------------------------------------------------
(* Option, Result *)

None == <<>>
Some(x) == <<x>>

OkVal(v) == [tag |-> "Ok", val |-> v]
ErrVal == [tag |-> "Err", val |-> None]
PanicVal == [tag |-> "Panic", val |-> None]

-----------------------------------------------------------------------------
(* Input domains *)

TagA == <<5>>
TagB == <<5, 6>>

AttrInputs ==
    { [title |-> <<1>>, date |-> 1, tags |-> <<TagA>>, priority |-> None],
      [title |-> <<1, 2>>, date |-> 2, tags |-> <<TagB, TagA>>, priority |-> Some(1)] }

ContentInputs == { <<>>, <<9>> }

\* what import_entries finds at the path it is given: no file, a file that
\* is no transfer document, or a transfer document (the drafts it holds)
ImportFiles ==
    { [state |-> "Missing", drafts |-> <<>>],
      [state |-> "Unparseable", drafts |-> <<>>],
      [state |-> "Document",
       drafts |-> << [title |-> <<1>>, date |-> 1, tags |-> <<TagA>>,
                      priority |-> None, content |-> <<9>>] >>] }

\* how far export_entries gets: the directory cannot be made, the collaborator
\* fails, the file cannot be written, or all of it works
ExportOutcomes == { "DirError", "ExportError", "FileError", "Ok" }

FilterInputs ==
    { None,
      Some([criteria |-> << [kind |-> "Tag", val |-> TagB] >>]),
      Some([criteria |-> << [kind |-> "Tag", val |-> TagA],
                            [kind |-> "Tag", val |-> TagB],
                            [kind |-> "Priority", val |-> Some(1)] >>]),
      Some([criteria |-> << [kind |-> "Content", val |-> <<9>>],
                            [kind |-> "Title", val |-> <<1>>] >>]) }

\* Sorter::default
DefaultSorter == [criteria |-> <<"Date", "Priority">>, order |-> "Descending"]

SorterInputs ==
    { DefaultSorter,
      [criteria |-> <<"Priority", "Title">>, order |-> "Ascending"] }

MkEntry(id, a, content) ==
    [id |-> id, title |-> a.title, date |-> a.date, tags |-> a.tags,
     priority |-> a.priority, content |-> content]

\* The storage when the program starts: nothing has been written yet
InitialStore == {}

-----------------------------------------------------------------------------
(* Sequence helpers *)

Front(s) == SubSeq(s, 1, Len(s) - 1)
Last(s) == s[Len(s)]
RemoveAt(s, i) == SubSeq(s, 1, i - 1) \o SubSeq(s, i + 1, Len(s))
InsertAt(s, i, e) == SubSeq(s, 1, i - 1) \o <<e>> \o SubSeq(s, i, Len(s))
Range(s) == { s[i] : i \in 1..Len(s) }

\* Iterator::position / find: the first index holding the id, 0 when there is none
IndexOfId(es, id) ==
    LET hits == { i \in 1..Len(es) : es[i].id = id }
    IN IF hits = {} THEN 0 ELSE CHOOSE i \in hits : \A j \in hits : i <= j

\* str::contains
Contains(hay, needle) ==
    \E i \in 0..(Len(hay) - Len(needle)) : SubSeq(hay, i + 1, i + Len(needle)) = needle

\* Ord for String and for Option<u32>: -1, 0, 1
RECURSIVE LexCmp(_, _)
LexCmp(a, b) ==
    IF a = <<>> /\ b = <<>> THEN 0
    ELSE IF a = <<>> THEN -1
    ELSE IF b = <<>> THEN 1
    ELSE IF a[1] < b[1] THEN -1
    ELSE IF a[1] > b[1] THEN 1
    ELSE LexCmp(Tail(a), Tail(b))

NatCmp(a, b) == IF a < b THEN -1 ELSE IF a > b THEN 1 ELSE 0


-----------------------------------------------------------------------------
(* Sorter (sorter.rs): the criteria decide in their order, the first that   *)
(* does not tie wins; Descending reverses the comparison.                   *)

OptCmp(a, b) ==
    IF a = None /\ b = None THEN 0
    ELSE IF a = None THEN -1
    ELSE IF b = None THEN 1
    ELSE NatCmp(a[1], b[1])

CriterionCmp(c, e1, e2) ==
    CASE c = "Date" -> NatCmp(e1.date, e2.date)
      [] c = "Priority" -> OptCmp(e1.priority, e2.priority)
      [] c = "Title" -> LexCmp(e1.title, e2.title)

RECURSIVE CriteriaCmp(_, _, _)
CriteriaCmp(cs, e1, e2) ==
    IF cs = <<>> THEN 0
    ELSE LET c == CriterionCmp(cs[1], e1, e2)
         IN IF c # 0 THEN c ELSE CriteriaCmp(Tail(cs), e1, e2)

\* Sorter::sort
SorterSort(srt, e1, e2) ==
    LET c == CriteriaCmp(srt.criteria, e1, e2)
    IN IF srt.order = "Ascending" THEN c ELSE 0 - c

\* slice::sort_by is a stable sort: an element goes after everything that
\* does not compare greater than it
StableInsert(srt, acc, e) ==
    LET greater == { i \in 1..Len(acc) : SorterSort(srt, acc[i], e) > 0 }
        pos == IF greater = {} THEN Len(acc) + 1
               ELSE CHOOSE i \in greater : \A j \in greater : i <= j
    IN InsertAt(acc, pos, e)

RECURSIVE SortBy(_, _)
SortBy(srt, es) ==
    IF es = <<>> THEN <<>>
    ELSE StableInsert(srt, SortBy(srt, Front(es)), Last(es))

-----------------------------------------------------------------------------
(* Filter (filter.rs): an entry passes when it meets every criterion.       *)

CriterionCheck(cr, entry) ==
    CASE cr.kind = "Tag" -> \E i \in 1..Len(entry.tags) : entry.tags[i] = cr.val
      [] cr.kind = "Title" -> Contains(entry.title, cr.val)
      [] cr.kind = "Content" -> Contains(entry.content, cr.val)
      [] cr.kind = "Priority" -> entry.priority = cr.val

\* Filter::check_entry
check_entry(f, entry) ==
    \A i \in 1..Len(f.criteria) : CriterionCheck(f.criteria[i], entry)

-----------------------------------------------------------------------------
(* History manager (history.rs): two stacks of Change records, each capped  *)
(* at history_limit; a push onto a full stack drops the oldest record.      *)

ChangeAddEntry(id) == [kind |-> "AddEntry", id |-> id]
ChangeRemoveEntry(entry) == [kind |-> "RemoveEntry", entry |-> entry]
ChangeAttribute(entry) ==
    [kind |-> "ChangeAttribute",
     attr |-> [id |-> entry.id, title |-> entry.title, date |-> entry.date,
               tags |-> entry.tags, priority |-> entry.priority]]
ChangeContent(entry) ==
    [kind |-> "ChangeContent", id |-> entry.id, content |-> entry.content]

\* variant: the history is built with room for one record too many
HistoryCapacity_OneTooMany == history_limit + 1

\* App::new hands the configured limit to HistoryManager::new
HistoryCapacity == history_limit

\* HistoryStack::push
StackPush(stack, change) ==
    IF Len(stack) >= HistoryCapacity
    THEN Append(Tail(stack), change)
    ELSE Append(stack, change)

\* HistoryManager::register_* : the record goes to the stack the target names
Register(a, history_target, change) ==
    IF history_target = "Undo"
    THEN [a EXCEPT !.undo_stack = StackPush(@, change)]
    ELSE [a EXCEPT !.redo_stack = StackPush(@, change)]

register_add(a, history_target, entry) ==
    Register(a, history_target, ChangeAddEntry(entry.id))
register_remove(a, history_target, entry) ==
    Register(a, history_target, ChangeRemoveEntry(entry))
register_change_attributes(a, history_target, entry) ==
    Register(a, history_target, ChangeAttribute(entry))
register_change_content(a, history_target, entry) ==
    Register(a, history_target, ChangeContent(entry))

-----------------------------------------------------------------------------
(* Persistence collaborator (DataProvider): each call either fails and      *)
(* changes nothing, or succeeds; add_entry hands out a fresh id.            *)

DataCall(a) == [a EXCEPT !.calls = @ + 1]
DataFail(a) == [a EXCEPT !.calls = @ + 1, !.failed = TRUE]

DataAddEntry(a, draft) ==
    LET entry == MkEntry(a.next_id, draft, draft.content)
    IN [DataCall(a) EXCEPT !.store = @ \cup {entry}, !.next_id = @ + 1]

DataUpdateEntry(a, entry) ==
    [DataCall(a) EXCEPT !.store = { e \in @ : e.id # entry.id } \cup {entry}]

DataRemoveEntry(a, entry_id) ==
    [DataCall(a) EXCEPT !.store = { e \in @ : e.id # entry_id }]

\* import_entries: every draft of the document is stored under a fresh id
DataImportEntries(a, drafts) ==
    [DataCall(a) EXCEPT
        !.store = @ \cup { MkEntry(a.next_id + i - 1, drafts[i], drafts[i].content) :
                            i \in 1..Len(drafts) },
        !.next_id = @ + Len(drafts)]

\* load_all_entries: the stored entries, by id
RECURSIVE StoreSeq(_)
StoreSeq(st) ==
    IF st = {} THEN <<>>
    ELSE LET e == CHOOSE x \in st : \A y \in st : x.id >= y.id
         IN Append(StoreSeq(st \ {e}), e)

-----------------------------------------------------------------------------
(* The App value and its operations (src/app/mod.rs)                        *)

App ==
    [entries |-> entries, current_entry_id |-> current_entry_id,
     selected_entries |-> selected_entries,
     filtered_out_entries |-> filtered_out_entries, filter |-> filter,
     sorter |-> sorter, undo_stack |-> undo_stack, redo_stack |-> redo_stack,
     store |-> store, next_id |-> next_id, calls |-> calls, failed |-> failed,
     result |-> result, panicked |-> panicked]

\* A call starts: nothing has been asked of the collaborator yet
Enter(a) == [a EXCEPT !.calls = 0, !.failed = FALSE]

Return(a, v) == [a EXCEPT !.result = v]
\* expect / assert! failed: the process aborts
Panic(a) == [a EXCEPT !.result = PanicVal, !.panicked = TRUE]

\* App::get_active_entries
get_active_entries(a) ==
    SelectSeq(a.entries, LAMBDA e : e.id \notin a.filtered_out_entries)

\* App::get_current_entry
get_current_entry(a) ==
    IF a.current_entry_id = None THEN None
    ELSE LET act == get_active_entries(a)
             i == IndexOfId(act, a.current_entry_id[1])
         IN IF i = 0 THEN None ELSE Some(act[i])

\* App::get_all_tags: the tags of all entries, each once, ascending
AllTagSet(es) == UNION { Range(es[i].tags) : i \in 1..Len(es) }

RECURSIVE AscendingSeq(_)
AscendingSeq(S) ==
    IF S = {} THEN <<>>
    ELSE LET m == CHOOSE x \in S : \A y \in S : LexCmp(x, y) <= 0
         IN <<m>> \o AscendingSeq(S \ {m})

\* variant: only the tags of the active entries are collected
get_all_tags_ActiveOnly(a) == AscendingSeq(AllTagSet(get_active_entries(a)))

\* App::get_all_tags
get_all_tags(a) == AscendingSeq(AllTagSet(a.entries))

\* App::sort_entries
sort_entries(a) == [a EXCEPT !.entries = SortBy(a.sorter, @)]

\* update_filter leaving a Filter without criteria in place
update_filter_KeepsEmpty(a) ==
    IF a.filter # None
    THEN LET all_tags == get_all_tags(a)
         IN [a EXCEPT !.filter =
                 Some([criteria |-> SelectSeq(a.filter[1].criteria,
                                       LAMBDA cr : IF cr.kind = "Tag"
                                                   THEN cr.val \in Range(all_tags)
                                                   ELSE TRUE)])]
    ELSE a

\* App::update_filter
update_filter(a) ==
    IF a.filter # None
    THEN LET all_tags == get_all_tags(a)
             kept == SelectSeq(a.filter[1].criteria,
                               LAMBDA cr : IF cr.kind = "Tag"
                                           THEN cr.val \in Range(all_tags)
                                           ELSE TRUE)
         IN IF kept = <<>>
            THEN [a EXCEPT !.filter = None]
            ELSE [a EXCEPT !.filter = Some([criteria |-> kept])]
    ELSE a

\* App::update_filtered_out_entries
update_filtered_out_entries(a) ==
    IF a.filter # None
    THEN [a EXCEPT !.filtered_out_entries =
              { a.entries[i].id : i \in { j \in 1..Len(a.entries) :
                                          ~check_entry(a.filter[1], a.entries[j]) } }]
    ELSE [a EXCEPT !.filtered_out_entries = {}]

\* App::get_entry_mut: finds the entry among all entries and, when it is
\* there, registers its present attributes or content in the history
get_entry_mut(a, entry_id, edit_target, history_target) ==
    LET i == IndexOfId(a.entries, entry_id)
    IN IF i = 0 THEN a
       ELSE IF edit_target = "Attributes"
            THEN register_change_attributes(a, history_target, a.entries[i])
            ELSE register_change_content(a, history_target, a.entries[i])

\* variant: the loaded entries are added to those the collection holds
load_entries_Appends(a, ok) ==
    IF ~ok THEN Return(DataFail(a), ErrVal)
    ELSE Return(update_filtered_out_entries(
                    sort_entries([DataCall(a) EXCEPT
                                     !.entries = @ \o StoreSeq(a.store)])),
                   OkVal(None))

\* App::load_entries
load_entries(a, ok) ==
    IF ~ok THEN Return(DataFail(a), ErrVal)
    ELSE Return(update_filtered_out_entries(
                    sort_entries([DataCall(a) EXCEPT !.entries = StoreSeq(a.store)])),
                   OkVal(None))

\* variant: the add leaves the filtered-out set as it is
add_entry_intern_KeepsFilteredOut(a, attrs, content, history_target, ok) ==
    LET draft == [title |-> attrs.title, date |-> attrs.date, tags |-> attrs.tags,
                  priority |-> attrs.priority,
                  content |-> IF content = None THEN <<>> ELSE content[1]]
    IN IF ~ok THEN Return(DataFail(a), ErrVal)
       ELSE LET a1 == DataAddEntry(a, draft)
                entry == MkEntry(a.next_id, draft, draft.content)
                a2 == register_add(a1, history_target, entry)
                a3 == [a2 EXCEPT !.entries = Append(@, entry)]
            IN Return(sort_entries(a3), OkVal(Some(entry.id)))

\* variant: a failed add is tried a second time before the error is returned
add_entry_intern_Retries(a, attrs, content, history_target, ok) ==
    LET draft == [title |-> attrs.title, date |-> attrs.date, tags |-> attrs.tags,
                  priority |-> attrs.priority,
                  content |-> IF content = None THEN <<>> ELSE content[1]]
    IN IF ~ok THEN Return(DataFail(DataFail(a)), ErrVal)
       ELSE LET a1 == DataAddEntry(a, draft)
                entry == MkEntry(a.next_id, draft, draft.content)
                a2 == register_add(a1, history_target, entry)
                a3 == [a2 EXCEPT !.entries = Append(@, entry)]
            IN Return(update_filtered_out_entries(sort_entries(a3)),
                      OkVal(Some(entry.id)))

\* App::add_entry_intern
add_entry_intern(a, attrs, content, history_target, ok) ==
    LET draft == [title |-> attrs.title, date |-> attrs.date, tags |-> attrs.tags,
                  priority |-> attrs.priority,
                  content |-> IF content = None THEN <<>> ELSE content[1]]
    IN IF ~ok THEN Return(DataFail(a), ErrVal)
       ELSE LET a1 == DataAddEntry(a, draft)
                entry == MkEntry(a.next_id, draft, draft.content)
                a2 == register_add(a1, history_target, entry)
                a3 == [a2 EXCEPT !.entries = Append(@, entry)]
            IN Return(update_filtered_out_entries(sort_entries(a3)),
                      OkVal(Some(entry.id)))

\* variant: the direct add registers in the redo history
add_entry_RedoTarget(a, attrs, ok) == add_entry_intern(a, attrs, None, "Redo", ok)

\* App::add_entry
add_entry(a, attrs, ok) == add_entry_intern(a, attrs, None, "Undo", ok)

\* App::update_entry_attributes
update_entry_attributes(a, entry_id, attrs, history_target, ok) ==
    IF a.current_entry_id = None THEN Panic(a)
    ELSE LET a1 == get_entry_mut(a, entry_id, "Attributes", history_target)
             i == IndexOfId(a.entries, entry_id)
         IN IF i = 0 THEN Panic(a1)
            ELSE LET a2 == [a1 EXCEPT !.entries[i].title = attrs.title,
                                      !.entries[i].date = attrs.date,
                                      !.entries[i].tags = attrs.tags,
                                      !.entries[i].priority = attrs.priority]
                 IN IF ~ok THEN Return(DataFail(a2), ErrVal)
                    ELSE Return(update_filtered_out_entries(update_filter(
                                    sort_entries(DataUpdateEntry(a2, a2.entries[i])))),
                                OkVal(None))

\* App::update_current_entry_attributes
update_current_entry_attributes(a, attrs, ok) ==
    IF a.current_entry_id = None THEN Panic(a)
    ELSE update_entry_attributes(a, a.current_entry_id[1], attrs, "Undo", ok)

\* App::update_entry_content
update_entry_content(a, entry_id, entry_content, history_target, ok) ==
    LET a1 == get_entry_mut(a, entry_id, "Content", history_target)
        i == IndexOfId(a.entries, entry_id)
    IN IF i = 0 THEN Panic(a1)
       ELSE LET a2 == [a1 EXCEPT !.entries[i].content = entry_content]
            IN IF ~ok THEN Return(DataFail(a2), ErrVal)
               ELSE Return(update_filtered_out_entries(
                               DataUpdateEntry(a2, a2.entries[i])),
                           OkVal(None))

\* App::update_current_entry_content
update_current_entry_content(a, entry_content, ok) ==
    IF a.current_entry_id = None THEN Panic(a)
    ELSE update_entry_content(a, a.current_entry_id[1], entry_content, "Undo", ok)

\* variant: the entry leaves the collection before the collaborator is asked
delete_entry_intern_RemovesFirst(a, entry_id, history_target, ok) ==
    LET i == IndexOfId(a.entries, entry_id)
    IN IF i = 0 THEN Panic(a)
       ELSE LET a1 == [a EXCEPT !.entries = RemoveAt(@, i)]
            IN IF ~ok THEN Return(DataFail(a1), ErrVal)
               ELSE LET a2 == register_remove(DataRemoveEntry(a1, entry_id),
                                              history_target, a.entries[i])
                    IN Return(update_filtered_out_entries(update_filter(a2)),
                              OkVal(None))

\* App::delete_entry_intern
delete_entry_intern(a, entry_id, history_target, ok) ==
    IF ~ok THEN Return(DataFail(a), ErrVal)
    ELSE LET a1 == DataRemoveEntry(a, entry_id)
             i == IndexOfId(a.entries, entry_id)
         IN IF i = 0 THEN Panic(a1)
            ELSE LET a2 == [a1 EXCEPT !.entries = RemoveAt(@, i)]
                     a3 == register_remove(a2, history_target, a.entries[i])
                 IN Return(update_filtered_out_entries(update_filter(a3)),
                           OkVal(None))

\* variant: a deletion takes the deleted id from the cursor and the selection
delete_entry_ForgetsDeleted(a, entry_id, ok) ==
    LET r == delete_entry_intern(a, entry_id, "Undo", ok)
    IN IF r.result.tag = "Ok"
       THEN [r EXCEPT !.current_entry_id = IF @ = Some(entry_id) THEN None ELSE @,
                      !.selected_entries = @ \ {entry_id}]
       ELSE r

\* App::delete_entry
delete_entry(a, entry_id, ok) == delete_entry_intern(a, entry_id, "Undo", ok)

\* App::export_entries
export_entries(a, outcome) ==
    IF outcome = "DirError" THEN Return(a, ErrVal)
    ELSE IF outcome = "ExportError" THEN Return(DataFail(a), ErrVal)
    ELSE IF outcome = "FileError" THEN Return(DataCall(a), ErrVal)
    ELSE Return(DataCall(a), OkVal(None))

\* variant: a successful import loads the stored entries into the collection
import_entries_Reloads(a, file, ok) ==
    IF file.state # "Document" THEN Return(a, ErrVal)
    ELSE IF ~ok THEN Return(DataFail(a), ErrVal)
    ELSE LET a1 == DataImportEntries(a, file.drafts)
         IN Return(update_filtered_out_entries(
                       sort_entries([a1 EXCEPT !.entries = StoreSeq(a1.store)])),
                   OkVal(None))

\* App::import_entries
import_entries(a, file, ok) ==
    IF file.state = "Missing" THEN Return(a, ErrVal)
    ELSE IF file.state = "Unparseable" THEN Return(a, ErrVal)
    ELSE IF ~ok THEN Return(DataFail(a), ErrVal)
    ELSE Return(DataImportEntries(a, file.drafts), OkVal(None))

\* App::apply_filter
apply_filter(a, f) ==
    Return(update_filtered_out_entries([a EXCEPT !.filter = f]), OkVal(None))

\* App::apply_sort
apply_sort(a, srt) ==
    Return(sort_entries([a EXCEPT !.sorter = srt]), OkVal(None))

\* The `?` after a replayed call: an error or abort leaves as it is, a
\* success returns the value the arm of apply_change names
Propagate(a, v) == IF a.result.tag = "Ok" THEN Return(a, v) ELSE a

\* variant: a replayed RemoveEntry record re-creates the entry without its content
apply_change_DropsContent(a, change, history_target, ok) ==
    CASE change.kind = "AddEntry" ->
           Propagate(delete_entry_intern(a, change.id, history_target, ok),
                     OkVal(None))
      [] change.kind = "RemoveEntry" ->
           LET r == add_entry_intern(a, change.entry, None, history_target, ok)
           IN Propagate(r, r.result)
      [] change.kind = "ChangeAttribute" ->
           Propagate(update_entry_attributes(a, change.attr.id, change.attr,
                                             history_target, ok),
                     OkVal(Some(change.attr.id)))
      [] change.kind = "ChangeContent" ->
           Propagate(update_entry_content(a, change.id, change.content,
                                          history_target, ok),
                     OkVal(Some(change.id)))

\* App::apply_change
apply_change(a, change, history_target, ok) ==
    CASE change.kind = "AddEntry" ->
           Propagate(delete_entry_intern(a, change.id, history_target, ok),
                     OkVal(None))
      [] change.kind = "RemoveEntry" ->
           LET r == add_entry_intern(a, change.entry, Some(change.entry.content),
                                     history_target, ok)
           IN Propagate(r, r.result)
      [] change.kind = "ChangeAttribute" ->
           Propagate(update_entry_attributes(a, change.attr.id, change.attr,
                                             history_target, ok),
                     OkVal(Some(change.attr.id)))
      [] change.kind = "ChangeContent" ->
           Propagate(update_entry_content(a, change.id, change.content,
                                          history_target, ok),
                     OkVal(Some(change.id)))

\* HistoryManager::pop_undo / pop_redo: the most recent record leaves the stack
pop_undo(a) == [a EXCEPT !.undo_stack = Front(@)]
pop_redo(a) == [a EXCEPT !.redo_stack = Front(@)]

\* variant: an empty undo history is reported as an error
undo_EmptyIsError(a, ok) ==
    IF a.undo_stack # <<>>
    THEN apply_change(pop_undo(a), Last(a.undo_stack), "Redo", ok)
    ELSE Return(a, ErrVal)

\* variant: the replayed record's inverse goes back onto the undo history
undo_UndoTarget(a, ok) ==
    IF a.undo_stack # <<>>
    THEN apply_change(pop_undo(a), Last(a.undo_stack), "Undo", ok)
    ELSE Return(a, OkVal(None))

\* App::undo
undo(a, ok) ==
    IF a.undo_stack # <<>>
    THEN apply_change(pop_undo(a), Last(a.undo_stack), "Redo", ok)
    ELSE Return(a, OkVal(None))

\* variant: the replayed record's inverse goes back onto the redo history
redo_RedoTarget(a, ok) ==
    IF a.redo_stack # <<>>
    THEN apply_change(pop_redo(a), Last(a.redo_stack), "Redo", ok)
    ELSE Return(a, OkVal(None))

\* App::redo
redo(a, ok) ==
    IF a.redo_stack # <<>>
    THEN apply_change(pop_redo(a), Last(a.redo_stack), "Undo", ok)
    ELSE Return(a, OkVal(None))

-----------------------------------------------------------------------------
(* Observable content of the collection: entries without their ids          *)

Content(e) == <<e.title, e.date, e.tags, e.priority, e.content>>

\* the multiset of contents: each content with the number of entries holding it
ContentBag(es) ==
    LET S == { Content(es[i]) : i \in 1..Len(es) }
    IN { <<c, Cardinality({ i \in 1..Len(es) : Content(es[i]) = c })>> : c \in S }

-----------------------------------------------------------------------------
(* Bookkeeping of runs: a run is a series of successful direct operations   *)
(* (add, update, delete) followed by undo calls, nothing else in between.   *)
(* trail holds the content of the collection before each operation of the   *)
(* run, the last history_limit of them; undone counts the undo calls.       *)

TrailPush(tr, bag) ==
    IF Len(tr) >= history_limit THEN Append(Tail(tr), bag) ELSE Append(tr, bag)

RunDirect(a) ==
    IF a.result.tag = "Ok"
    THEN /\ trail' = IF undone = 0 THEN TrailPush(trail, ContentBag(entries))
                     ELSE <<ContentBag(entries)>>
         /\ undone' = 0
    ELSE /\ trail' = <<>>
         /\ undone' = 0

RunUndo(a) ==
    IF a.result.tag # "Err" /\ undone < Len(trail)
    THEN /\ trail' = trail
         /\ undone' = undone + 1
    ELSE /\ trail' = <<>>
         /\ undone' = 0

RunBreak ==
    /\ trail' = <<>>
    /\ undone' = 0

\* cycle follows one successful edit through undo; redo; undo, each made
\* right after the other: phase counts the calls made (1 the edit, 2 the
\* first undo, 3 the redo, 4 the second undo), edited and undid hold the
\* content of the collection after the edit and after the first undo
NoCycle == [phase |-> 0, edited |-> {}, undid |-> {}]

CycleDirect(a) ==
    cycle' = IF a.result.tag = "Ok"
             THEN [phase |-> 1, edited |-> ContentBag(a.entries), undid |-> {}]
             ELSE NoCycle

CycleUndo(a) ==
    cycle' = IF a.result.tag = "Err" THEN NoCycle
             ELSE IF cycle.phase = 1
                  THEN [cycle EXCEPT !.phase = 2, !.undid = ContentBag(a.entries)]
             ELSE IF cycle.phase = 3 THEN [cycle EXCEPT !.phase = 4]
             ELSE NoCycle

CycleRedo(a) ==
    cycle' = IF a.result.tag # "Err" /\ cycle.phase = 2
             THEN [cycle EXCEPT !.phase = 3]
             ELSE NoCycle

CycleBreak == cycle' = NoCycle

\* the ids of a collection
Ids(es) == { es[i].id : i \in 1..Len(es) }

\* how many entries of a collection hold the content of e
CountLike(es, e) == Cardinality({ i \in 1..Len(es) : Content(es[i]) = Content(e) })

\* scene follows an entry from the add_entry that created it (phase 1, id its
\* id) over the operations that leave it in the collection, to the
\* delete_entry that removes it (phase 2: entry holds it as it was right
\* before, count the entries that had its content then) and the undo that
\* comes next and does not fail (phase 3); pruned tells that the deletion
\* changed the Filter
NoScene == [phase |-> 0, id |-> 0, entry |-> None, count |-> 0, pruned |-> FALSE]

SceneAfter(a, op) ==
    IF op = "add_entry"
    THEN IF a.result.tag = "Ok"
         THEN [phase |-> 1, id |-> a.result.val[1], entry |-> None, count |-> 0,
               pruned |-> FALSE]
         ELSE NoScene
    ELSE IF scene.phase = 1 /\ op \notin {"undo", "redo", "load_entries"}
                            /\ ~a.panicked
         THEN IF op = "delete_entry" /\ scene.id \notin Ids(a.entries)
              THEN LET e == entries[IndexOfId(entries, scene.id)]
                   IN [phase |-> 2, id |-> scene.id, entry |-> Some(e),
                       count |-> CountLike(entries, e),
                       pruned |-> a.filter # filter]
              ELSE scene
    ELSE IF scene.phase = 2 /\ op = "undo" /\ a.result.tag = "Ok"
         THEN [scene EXCEPT !.phase = 3]
    ELSE NoScene

\* drain follows undo calls made one right after the other: start is the
\* number of records on the undo stack before the first of them, made the
\* number of calls, counted up to the one after the stack's last record
NoDrain == [start |-> 0, made |-> 0]

DrainAfter(op) ==
    IF op # "undo" THEN NoDrain
    ELSE IF lastOp # "undo" THEN [start |-> Len(undo_stack), made |-> 1]
    ELSE IF drain.made > drain.start THEN drain
    ELSE [drain EXCEPT !.made = @ + 1]

\* par while update_filtered_out_entries is not being followed step by step
ParIdle == [state |-> "idle", workers |-> 0, pending |-> {}, part |-> <<>>,
            joined |-> {}, out |-> {}]

-----------------------------------------------------------------------------
(* The state machine                                                        *)

Commit(a, op) ==
    /\ entries' = a.entries
    /\ current_entry_id' = a.current_entry_id
    /\ selected_entries' = a.selected_entries
    /\ filtered_out_entries' = a.filtered_out_entries
    /\ filter' = a.filter
    /\ sorter' = a.sorter
    /\ undo_stack' = a.undo_stack
    /\ redo_stack' = a.redo_stack
    /\ store' = a.store
    /\ next_id' = a.next_id
    /\ calls' = a.calls
    /\ failed' = a.failed
    /\ result' = a.result
    /\ panicked' = a.panicked
    /\ lastOp' = op
    /\ steps' = steps + 1
    /\ scene' = SceneAfter(a, op)
    /\ removed' = removed \cup (Ids(entries) \ Ids(a.entries))
    /\ par' = par
    /\ drain' = DrainAfter(op)

\* App::new, over a storage that holds some entries already
Init ==
    /\ entries = <<>>
    /\ current_entry_id = None
    /\ selected_entries = {}
    /\ filtered_out_entries = {}
    /\ filter = None
    /\ sorter = DefaultSorter
    /\ undo_stack = <<>>
    /\ redo_stack = <<>>
    /\ store = InitialStore
    /\ next_id = Cardinality(store) + 1
    /\ calls = 0
    /\ failed = FALSE
    /\ result = OkVal(None)
    /\ panicked = FALSE
    /\ lastOp = "new"
    /\ steps = 0
    /\ cycle = NoCycle
    /\ trail = <<>>
    /\ undone = 0
    /\ scene = NoScene
    /\ removed = {}
    /\ par = ParIdle
    /\ drain = NoDrain

\* the process lives and the session goes on
Running == ~panicked /\ steps < MaxSteps

\* a replayed RemoveEntry record creates an entry
Creates(stack) == stack # <<>> /\ Last(stack).kind = "RemoveEntry"

LoadEntries ==
    /\ Running
    /\ \E ok \in BOOLEAN :
         Commit(load_entries(Enter(App), ok), "load_entries")
    /\ RunBreak
    /\ CycleBreak

AddEntry ==
    /\ Running
    /\ next_id <= MaxId
    /\ \E attrs \in AttrInputs, ok \in BOOLEAN :
         LET a == add_entry(Enter(App), attrs, ok)
         IN Commit(a, "add_entry") /\ RunDirect(a) /\ CycleDirect(a)

UpdateCurrentEntryAttributes ==
    /\ Running
    /\ \E attrs \in AttrInputs, ok \in BOOLEAN :
         LET a == update_current_entry_attributes(Enter(App), attrs, ok)
         IN Commit(a, "update_current_entry_attributes") /\ RunDirect(a) /\ CycleDirect(a)

UpdateCurrentEntryContent ==
    /\ Running
    /\ \E c \in ContentInputs, ok \in BOOLEAN :
         LET a == update_current_entry_content(Enter(App), c, ok)
         IN Commit(a, "update_current_entry_content") /\ RunDirect(a) /\ CycleDirect(a)

DeleteEntry ==
    /\ Running
    /\ \E i \in 1..Len(entries), ok \in BOOLEAN :
         LET a == delete_entry(Enter(App), entries[i].id, ok)
         IN Commit(a, "delete_entry") /\ RunDirect(a) /\ CycleDirect(a)

Undo ==
    /\ Running
    /\ Creates(undo_stack) => next_id <= MaxId
    /\ \E ok \in BOOLEAN :
         LET a == undo(Enter(App), ok)
         IN Commit(a, "undo") /\ RunUndo(a) /\ CycleUndo(a)

Redo ==
    /\ Running
    /\ Creates(redo_stack) => next_id <= MaxId
    /\ \E ok \in BOOLEAN :
         LET a == redo(Enter(App), ok)
         IN Commit(a, "redo") /\ CycleRedo(a)
    /\ RunBreak

ApplyFilter ==
    /\ Running
    /\ \E f \in FilterInputs :
         Commit(apply_filter(Enter(App), f), "apply_filter")
    /\ RunBreak
    /\ CycleBreak

ApplySort ==
    /\ Running
    /\ \E srt \in SorterInputs :
         Commit(apply_sort(Enter(App), srt), "apply_sort")
    /\ RunBreak
    /\ CycleBreak

\* the list view moves the cursor: current_entry_id names an active entry or nothing
SelectEntry ==
    /\ Running
    /\ \E sel \in {None} \cup { Some(e.id) : e \in Range(get_active_entries(App)) } :
         Commit(Return([Enter(App) EXCEPT !.current_entry_id = sel], OkVal(None)),
                "select_entry")
    /\ RunBreak
    /\ CycleBreak

ExportEntries ==
    /\ Running
    /\ \E outcome \in ExportOutcomes :
         Commit(export_entries(Enter(App), outcome), "export_entries")
    /\ RunBreak
    /\ CycleBreak

ImportEntries ==
    /\ Running
    /\ \E file \in ImportFiles, ok \in BOOLEAN :
         /\ next_id + Len(file.drafts) - 1 <= MaxId
         /\ Commit(import_entries(Enter(App), file, ok), "import_entries")
    /\ RunBreak
    /\ CycleBreak

Next ==
    \/ LoadEntries
    \/ AddEntry
    \/ UpdateCurrentEntryAttributes
    \/ UpdateCurrentEntryContent
    \/ DeleteEntry
    \/ Undo
    \/ Redo
    \/ ApplyFilter
    \/ ApplySort
    \/ SelectEntry

Spec == Init /\ [][Next]_vars

\* A session with transfers: import and export among the operations that
\* fill and empty the collection, the history and the Filter
NextTransfer ==
    \/ ImportEntries
    \/ ExportEntries
    \/ LoadEntries
    \/ AddEntry
    \/ DeleteEntry
    \/ Undo
    \/ ApplyFilter

SpecTransfer == Init /\ [][NextTransfer]_vars

\* the list view marks an entry of the list as selected or takes the mark away
ToggleSelected ==
    /\ Running
    /\ \E e \in Range(get_active_entries(App)) :
         Commit(Return([Enter(App) EXCEPT
                           !.selected_entries = IF e.id \in @ THEN @ \ {e.id}
                                                ELSE @ \cup {e.id}],
                       OkVal(None)),
                "toggle_selected")
    /\ RunBreak
    /\ CycleBreak

\* A session in the list view: the cursor and the selection move among the
\* operations that change entries and replay the history
NextSelection ==
    \/ SelectEntry
    \/ ToggleSelected
    \/ AddEntry
    \/ UpdateCurrentEntryAttributes
    \/ UpdateCurrentEntryContent
    \/ DeleteEntry
    \/ Undo
    \/ Redo

SpecSelection == Init /\ [][NextSelection]_vars

\* A session over a collaborator that never fails: no call of an operation
\* meets an error of the persistence collaborator
NextReliable == Next /\ ~failed'

SpecReliable == Init /\ [][NextReliable]_vars

-----------------------------------------------------------------------------
(* update_filtered_out_entries step by step: par_iter hands the entries to  *)
(* the workers of the pool, each worker keeps the ids of the entries it     *)
(* found failing the Filter, and collect joins the workers' parts.          *)

\* the collections the evaluation is tried on, ordered by the Sorter
ParCollections ==
    UNION { { SortBy(DefaultSorter,
                     [i \in 1..n |-> MkEntry(i, f[i][1], f[i][2])]) :
              f \in [1..n -> AttrInputs \X ContentInputs] } :
            n \in 0..MaxParEntries }

\* variant: collect keeps the part of the worker that joins last
ParCollect_KeepsLast(out, part) == part

\* collect: the ids of a worker's part go into the set
ParCollect(out, part) == out \cup part

\* update_filtered_out_entries is entered with a Filter in place
InitPar ==
    /\ entries \in ParCollections
    /\ current_entry_id = None
    /\ selected_entries = {}
    /\ filtered_out_entries = {}
    /\ filter \in FilterInputs \ {None}
    /\ sorter = DefaultSorter
    /\ undo_stack = <<>>
    /\ redo_stack = <<>>
    /\ store = Range(entries)
    /\ next_id = Len(entries) + 1
    /\ calls = 0
    /\ failed = FALSE
    /\ result = OkVal(None)
    /\ panicked = FALSE
    /\ lastOp = "new"
    /\ steps = 0
    /\ cycle = NoCycle
    /\ trail = <<>>
    /\ undone = 0
    /\ scene = NoScene
    /\ removed = {}
    /\ drain = NoDrain
    /\ \E w \in 1..MaxWorkers :
          par = [state |-> "running", workers |-> w,
                 pending |-> 1..Len(entries),
                 part |-> [k \in 1..w |-> {}],
                 joined |-> {}, out |-> {}]

ParFrame ==
    UNCHANGED <<entries, current_entry_id, selected_entries, filter, sorter, undo_stack, redo_stack,
                store, next_id, calls, failed, result, panicked, lastOp, steps,
                cycle, trail, undone, scene, removed, drain>>

\* a worker takes an entry nobody has taken and keeps its id when the entry
\* fails the Filter
ParEval ==
    /\ par.state = "running"
    /\ \E w \in 1..par.workers, i \in par.pending :
          par' = [par EXCEPT
                    !.pending = @ \ {i},
                    !.part[w] = IF ~check_entry(filter[1], entries[i])
                                THEN @ \cup {entries[i].id} ELSE @]
    /\ UNCHANGED filtered_out_entries
    /\ ParFrame

\* no entry is left: a worker hands its part to collect
ParJoin ==
    /\ par.state = "running"
    /\ par.pending = {}
    /\ \E w \in (1..par.workers) \ par.joined :
          par' = [par EXCEPT !.joined = @ \cup {w},
                             !.out = ParCollect(@, par.part[w])]
    /\ UNCHANGED filtered_out_entries
    /\ ParFrame

\* every worker has joined: the collected set becomes filtered_out_entries
ParFinish ==
    /\ par.state = "running"
    /\ par.pending = {}
    /\ par.joined = 1..par.workers
    /\ filtered_out_entries' = par.out
    /\ par' = [par EXCEPT !.state = "done"]
    /\ ParFrame

NextPar ==
    \/ ParEval
    \/ ParJoin
    \/ ParFinish

SpecPar == InitPar /\ [][NextPar]_vars

-----------------------------------------------------------------------------
(* Properties                                                               *)

DirectOps ==
    { "add_entry", "update_current_entry_attributes",
      "update_current_entry_content", "delete_entry" }

UpdateOps == { "update_current_entry_attributes", "update_current_entry_content" }

\* the entry of a collection that carries the id
EntryOf(es, id) == es[IndexOfId(es, id)]

\* C1: after a run of k successful direct operations (k <= history_limit)
\* followed by exactly k undo calls, the multiset of entry contents (ids
\* ignored) is the one the collection had before the run.  trail holds the
\* contents before each of the last operations of the run, so after j undo
\* calls the content before the j-th last operation is due.
C1_UndoRestoresContent ==
    undone > 0 =>
        /\ ~panicked
        /\ ContentBag(entries) = trail[Len(trail) - undone + 1]

\* C2: when the collaborator's update_entry fails during
\* update_current_entry_content or update_current_entry_attributes, the call
\* returns the error, the targeted entry is as it was before the call and
\* neither history stack has gained a record.
C2_FailedUpdateChangesNothing ==
    [][(lastOp' \in UpdateOps /\ failed') =>
           /\ result'.tag = "Err"
           /\ EntryOf(entries', current_entry_id[1]) = EntryOf(entries, current_entry_id[1])
           /\ undo_stack' = undo_stack
           /\ redo_stack' = redo_stack]_vars

\* C3: when the collaborator fails during a direct add_entry or delete_entry,
\* the call returns the error and the collection (content and order), both
\* history stacks, the filter and the filtered-out set are as before the call.
C3_FailedAddDeleteChangesNothing ==
    [][(lastOp' \in {"add_entry", "delete_entry"} /\ failed') =>
           /\ result'.tag = "Err"
           /\ entries' = entries
           /\ undo_stack' = undo_stack
           /\ redo_stack' = redo_stack
           /\ filter' = filter
           /\ filtered_out_entries' = filtered_out_entries]_vars

\* a direct add or delete has failed in a state with entries, history and a filter
C3_Witness ==
    /\ lastOp \in {"add_entry", "delete_entry"}
    /\ failed
    /\ result.tag = "Err"
    /\ entries # <<>>
    /\ undo_stack # <<>>
    /\ filtered_out_entries # {}

\* C4: when the collaborator fails while undo (or redo) replays a record, the
\* call returns the error and both history stacks are as before the call.
C4_FailedReplayKeepsStacks ==
    [][(lastOp' \in {"undo", "redo"} /\ failed') =>
           /\ result'.tag = "Err"
           /\ undo_stack' = undo_stack
           /\ redo_stack' = redo_stack]_vars

\* one record was pushed: the stack after holds a new most recent record
\* over the records before, all of them when there was room, all but the
\* oldest when the stack was full
PushedOne(before, after) ==
    /\ after # <<>>
    /\ IF Len(before) < history_limit
       THEN Front(after) = before
       ELSE Front(after) = Tail(before)

\* the operation just made pushed onto the undo stack (a direct operation,
\* or a redo that replayed a record), or onto the redo stack (an undo that
\* replayed a record)
PushesOnUndo ==
    /\ result'.tag = "Ok"
    /\ \/ lastOp' \in DirectOps
       \/ lastOp' = "redo" /\ redo_stack # <<>>

PushesOnRedo ==
    /\ result'.tag = "Ok"
    /\ lastOp' = "undo"
    /\ undo_stack # <<>>

\* C5: each history stack holds at most history_limit records in every
\* state; a push onto a stack that holds history_limit records drops exactly
\* the oldest record, keeps the others in their order and puts the new record
\* on top.
C5_StacksBounded ==
    [][/\ Len(undo_stack) <= history_limit
       /\ Len(redo_stack) <= history_limit
       /\ Len(undo_stack') <= history_limit
       /\ Len(redo_stack') <= history_limit
       /\ (PushesOnUndo /\ Len(undo_stack) = history_limit) =>
              /\ Len(undo_stack') = history_limit
              /\ Front(undo_stack') = Tail(undo_stack)
       /\ (PushesOnRedo /\ Len(redo_stack) = history_limit) =>
              /\ Len(redo_stack') = history_limit
              /\ Front(redo_stack') = Tail(redo_stack)]_vars

\* every call so far added an entry, one more than the undo stack holds: the
\* last add pushed onto a full stack and the record of the first add is gone
C5_Witness ==
    /\ lastOp = "add_entry"
    /\ result.tag = "Ok"
    /\ steps = history_limit + 1
    /\ Len(entries) = steps
    /\ Len(undo_stack) = history_limit
    /\ undo_stack[1] = ChangeAddEntry(2)

\* C6: undo on an empty undo stack, and redo on an empty redo stack, returns
\* Ok(None), calls the collaborator not at all and leaves the collection, both
\* stacks, the filter and the filtered-out set as they were.
C6_EmptyHistoryNoEffect ==
    [][(\/ lastOp' = "undo" /\ undo_stack = <<>>
        \/ lastOp' = "redo" /\ redo_stack = <<>>) =>
           /\ result' = OkVal(None)
           /\ calls' = 0
           /\ ~panicked'
           /\ entries' = entries
           /\ undo_stack' = undo_stack
           /\ redo_stack' = redo_stack
           /\ filter' = filter
           /\ filtered_out_entries' = filtered_out_entries]_vars

\* undo has been called on an empty undo stack while the redo stack, the
\* collection and the filtered-out set hold something
C6_Witness ==
    /\ lastOp = "undo"
    /\ calls = 0
    /\ result = OkVal(None)
    /\ undo_stack = <<>>
    /\ redo_stack # <<>>
    /\ entries # <<>>
    /\ filtered_out_entries # {}

\* C7: every successful mutating operation pushes exactly one record onto
\* exactly one stack: a direct operation onto the undo stack, leaving the redo
\* stack alone; an undo takes the top record off the undo stack and pushes one
\* record onto the redo stack; a redo takes the top record off the redo stack
\* and pushes one record onto the undo stack.
C7_OneRecordPerOperation ==
    [][/\ (result'.tag = "Ok" /\ lastOp' \in DirectOps) =>
              /\ PushedOne(undo_stack, undo_stack')
              /\ redo_stack' = redo_stack
       /\ (result'.tag = "Ok" /\ lastOp' = "undo" /\ undo_stack # <<>>) =>
              /\ PushedOne(redo_stack, redo_stack')
              /\ undo_stack' = Front(undo_stack)
       /\ (result'.tag = "Ok" /\ lastOp' = "redo" /\ redo_stack # <<>>) =>
              /\ PushedOne(undo_stack, undo_stack')
              /\ redo_stack' = Front(redo_stack)]_vars

\* a redo has replayed a record with both stacks holding records afterwards
C7_Witness ==
    /\ lastOp = "redo"
    /\ result.tag = "Ok"
    /\ calls = 1
    /\ Len(undo_stack) = history_limit
    /\ redo_stack # <<>>

\* the record a successful direct operation leaves for its undo
DirectRecordFits(op, rec) ==
    CASE op = "add_entry" ->
           /\ rec = ChangeAddEntry(result'.val[1])
           /\ IndexOfId(entries', rec.id) # 0
           /\ IndexOfId(entries, rec.id) = 0
      [] op = "delete_entry" ->
           /\ rec.kind = "RemoveEntry"
           /\ rec.entry \in Range(entries)
           /\ IndexOfId(entries', rec.entry.id) = 0
      [] op = "update_current_entry_attributes" ->
           rec = ChangeAttribute(EntryOf(entries, current_entry_id[1]))
      [] op = "update_current_entry_content" ->
           rec = ChangeContent(EntryOf(entries, current_entry_id[1]))

\* C8: a direct add, update or delete never changes the redo stack, whatever
\* its outcome, and on success the undo stack has its record on top; so a
\* direct operation made after an undo leaves the redo stack as the undo
\* left it.
C8_DirectOpsKeepRedo ==
    [][lastOp' \in DirectOps =>
           /\ redo_stack' = redo_stack
           /\ result'.tag = "Ok" =>
                  /\ undo_stack' # <<>>
                  /\ DirectRecordFits(lastOp', Last(undo_stack'))]_vars

\* a direct operation has succeeded while the redo stack holds the record of
\* an earlier undo
C8_Witness ==
    /\ lastOp \in DirectOps
    /\ result.tag = "Ok"
    /\ redo_stack # <<>>

\* C9: for one successful edit (add, attribute edit, content edit, delete)
\* followed at once by undo; redo; undo, none of them failing, the contents
\* of the collection (ids ignored) after undo; redo are those after the edit,
\* and after undo; redo; undo those after the first undo; no call aborts.
C9_UndoRedoUndoIdempotent ==
    /\ cycle.phase >= 2 => ~panicked
    /\ cycle.phase = 3 => ContentBag(entries) = cycle.edited
    /\ cycle.phase = 4 => ContentBag(entries) = cycle.undid

\* edit; undo; redo; undo has run on a collection the edit changed
C9_Witness ==
    /\ cycle.phase = 4
    /\ lastOp = "undo"
    /\ result.tag = "Ok"
    /\ cycle.edited # cycle.undid
    /\ cycle.undid # {}

\* the ids of the entries that fail a criterion of the filter, none without a filter
MustBeFilteredOut(es, f) ==
    IF f = None THEN {}
    ELSE { es[i].id : i \in { j \in 1..Len(es) :
              \E k \in 1..Len(f[1].criteria) : ~CriterionCheck(f[1].criteria[k], es[j]) } }

\* C10: after every operation the filtered-out set is exactly the set of ids
\* of the entries that fail a criterion of the active filter (empty without a
\* filter), so get_active_entries yields exactly the entries that pass.
C10_FilteredOutIsDerived ==
    ~panicked =>
        /\ filtered_out_entries = MustBeFilteredOut(entries, filter)
        /\ get_active_entries(App) =
               SelectSeq(entries, LAMBDA e : e.id \notin MustBeFilteredOut(entries, filter))
\* the Tag criteria of a Filter that name a tag the deletion took from the
\* collection: borne before, borne by no entry after
LostTagCriteria(f, before, after) ==
    { i \in 1..Len(f.criteria) :
        /\ f.criteria[i].kind = "Tag"
        /\ f.criteria[i].val \in AllTagSet(before)
        /\ f.criteria[i].val \notin AllTagSet(after) }

\* the criteria of f without the i-th
WithoutCriterion(f, i) == RemoveAt(f.criteria, i)

\* the criteria of f that are no Tag criterion of a tag no entry bears
LiveCriteria(f, es) ==
    SelectSeq(f.criteria,
              LAMBDA cr : cr.kind = "Tag" => cr.val \in AllTagSet(es))

\* the Filter and the filtered-out set after a deletion left these criteria
FilterIsNow(criteria) ==
    IF criteria = <<>>
    THEN filter' = None /\ filtered_out_entries' = {}
    ELSE filter' = Some([criteria |-> criteria])

\* C11 as stated: when delete_entry succeeds on the last entry bearing tag T
\* while the Filter holds Tag(T), exactly that criterion leaves the Filter
\* and every other criterion stays; was it the only one, the Filter becomes
\* absent and the filtered-out set empty.
C11_DeletePrunesOnlyThatTag ==
    [][ (lastOp' = "delete_entry" /\ result'.tag = "Ok" /\ filter # None)
        => \A i \in LostTagCriteria(filter[1], entries, entries') :
              FilterIsNow(WithoutCriterion(filter[1], i)) ]_vars

\* C11 amended: when delete_entry succeeds on the last entry bearing tag T
\* while the Filter holds Tag(T), the Filter keeps, in their order, exactly
\* the criteria that are not a Tag criterion of a tag borne by no remaining
\* entry (Tag(T) goes, and so does every other Tag criterion without a
\* bearer); when no criterion remains the Filter becomes absent and the
\* filtered-out set empty.
C11_DeletePrunesDeadTags ==
    [][ (/\ lastOp' = "delete_entry" /\ result'.tag = "Ok" /\ filter # None
         /\ LostTagCriteria(filter[1], entries, entries') # {})
        => FilterIsNow(LiveCriteria(filter[1], entries')) ]_vars

\* a deletion took the last bearer of tagB and left a bearer of tagA: of the
\* criteria Tag(tagA), Tag(tagB), Priority(1) the second is gone
C11_Witness ==
    /\ lastOp = "delete_entry" /\ result.tag = "Ok"
    /\ entries # <<>>
    /\ filter = Some([criteria |-> << [kind |-> "Tag", val |-> TagA],
                                     [kind |-> "Priority", val |-> Some(1)] >>])

\* the RemoveEntry record on top of the undo history holds the deleted entry
\* of the scene in full
RecordHoldsDeleted ==
    scene.phase = 2 =>
        /\ undo_stack # <<>>
        /\ Last(undo_stack) = ChangeRemoveEntry(scene.entry[1])

\* the undo of the scene returned the id of an entry that was created anew,
\* carries the content of the deleted entry and not its id, which no entry
\* carries any more
RecreatedUnderNewId ==
    /\ result.tag = "Ok" /\ result.val # None
    /\ LET m == result.val[1]
       IN /\ m # scene.id
          /\ m = next_id - 1
          /\ m \in Ids(entries)
          /\ Content(EntryOf(entries, m)) = Content(scene.entry[1])
    /\ scene.id \notin Ids(entries)

\* C12 as stated: after add_entry of E, delete_entry of its id N and an undo
\* that does not fail, the collection contains exactly one entry with E's
\* title, date, tags, priority and content, under the id the collaborator
\* assigned when it was re-created; the replayed RemoveEntry record held the
\* entry as it was right before the deletion.
C12_ExactlyOneLikeDeleted ==
    /\ RecordHoldsDeleted
    /\ scene.phase = 3 =>
          /\ RecreatedUnderNewId
          /\ CountLike(entries, scene.entry[1]) = 1

\* C12 amended: after add_entry of E, delete_entry of its id N and an undo
\* that does not fail, the collection contains the re-created entry with
\* E's title, date, tags, priority and content under the new id the
\* collaborator assigned, no entry carries N, and as many entries hold that
\* content as right before the deletion (exactly one when no other entry
\* held it); the replayed RemoveEntry record held the entry as it was right
\* before the deletion.
C12_RecreatedOnceMore ==
    /\ RecordHoldsDeleted
    /\ scene.phase = 3 =>
          /\ RecreatedUnderNewId
          /\ CountLike(entries, scene.entry[1]) = scene.count

\* the entry was given a content before it was deleted, and the undo brought
\* it back with that content beside another entry
C12_Witness ==
    /\ scene.phase = 3
    /\ lastOp = "undo"
    /\ scene.entry[1].content = <<9>>
    /\ Len(entries) = 2

\* the record an undo or redo call takes from its stack, if there is one
Replayed(op, us, rs) ==
    IF op = "undo" /\ us # <<>> THEN Some(Last(us))
    ELSE IF op = "redo" /\ rs # <<>> THEN Some(Last(rs))
    ELSE None

\* the id a ChangeAttribute or ChangeContent record carries
RecordId(change) ==
    IF change.kind = "ChangeAttribute" THEN change.attr.id ELSE change.id

\* C13: the replay of a ChangeAttribute or ChangeContent record by undo or
\* redo never aborts on an absent current entry: whatever current_entry_id
\* is, absent included, the replay works on the entry the record names and
\* either completes or returns a collaborator error.
C13_ReplayIgnoresCurrentEntry ==
    [][ \A r \in Range(Replayed(lastOp', undo_stack, redo_stack)) :
          (/\ r.kind \in {"ChangeAttribute", "ChangeContent"}
           /\ RecordId(r) \in Ids(entries))
          => result'.tag \in {"Ok", "Err"} ]_vars

\* C14: import_entries and export_entries, whether they succeed or fail,
\* leave the collection, the undo stack, the redo stack, the Filter and the
\* filtered-out set as they were; no Change record is produced.
C14_TransfersLeaveMemory ==
    [][ lastOp' \in {"import_entries", "export_entries"}
        => /\ entries' = entries
           /\ undo_stack' = undo_stack
           /\ redo_stack' = redo_stack
           /\ filter' = filter
           /\ filtered_out_entries' = filtered_out_entries ]_vars

\* an import has stored an entry while the collection, with an entry filtered
\* out and records on both stacks, does not hold it
C14_Witness ==
    /\ lastOp = "import_entries" /\ result.tag = "Ok"
    /\ entries # <<>> /\ filtered_out_entries # {}
    /\ undo_stack # <<>> /\ redo_stack # <<>>
    /\ Cardinality(store) = Len(entries) + 1

\* C15: with a collaborator that loads entries with distinct ids and hands
\* out a fresh id with every add, no two entries of the collection share an
\* id in any reachable state, and an id that has left the collection (its
\* entry was deleted) is never carried by an entry again.
C15_IdsUniqueNeverReused ==
    /\ \A i, j \in 1..Len(entries) : entries[i].id = entries[j].id => i = j
    /\ Ids(entries) \cap removed = {}

\* an undo has re-created a deleted entry beside another one: the id it
\* returned is none of those that left the collection
C15_Witness ==
    /\ lastOp = "undo" /\ result.tag = "Ok" /\ result.val # None
    /\ result.val[1] \in Ids(entries)
    /\ redo_stack # <<>> /\ Last(redo_stack) = ChangeAddEntry(result.val[1])
    /\ removed # {}
    /\ Len(entries) >= 2

\* C16: get_all_tags returns every tag that occurs on at least one entry of
\* the collection, filtered-out entries included, exactly once, in ascending
\* lexicographic order, and no other tag.
C16_AllTagsSortedUnique ==
    LET tags == get_all_tags(App)
    IN /\ \A i \in 1..Len(entries) : \A k \in 1..Len(entries[i].tags) :
              \E n \in 1..Len(tags) : tags[n] = entries[i].tags[k]
       /\ \A n \in 1..Len(tags) :
              \E i \in 1..Len(entries) : \E k \in 1..Len(entries[i].tags) :
                 entries[i].tags[k] = tags[n]
       /\ \A n \in 1..(Len(tags) - 1) : LexCmp(tags[n], tags[n + 1]) < 0

\* two tags, one of them on two entries and one only on a filtered-out entry
\* that lists it first
C16_Witness ==
    /\ get_all_tags(App) = <<TagA, TagB>>
    /\ Len(entries) >= 2
    /\ \E i \in 1..Len(entries) :
          /\ entries[i].id \in filtered_out_entries
          /\ entries[i].tags = <<TagB, TagA>>
    /\ \A i \in 1..Len(entries) :
          TagB \in Range(entries[i].tags) => entries[i].id \in filtered_out_entries

\* the Filter names no tag that no entry bears, and is not there without criteria
FilterIsPruned(f, es) ==
    f # None =>
        /\ f[1].criteria # <<>>
        /\ \A n \in 1..Len(f[1].criteria) :
              f[1].criteria[n].kind = "Tag" => f[1].criteria[n].val \in AllTagSet(es)

\* C17 as stated: after every successful add_entry, update of attributes,
\* update of content, delete_entry, undo and redo, whatever Filter
\* apply_filter installed before, the Filter has no Tag criterion of a tag
\* that no entry bears, and it is never present without criteria.
C17_FilterPrunedAfterMutation ==
    (lastOp \in DirectOps \cup {"undo", "redo"} /\ result.tag = "Ok")
    => FilterIsPruned(filter, entries)

\* the operations that end with update_filter: the update of attributes and
\* the deletion, called directly or by the replay of a ChangeAttribute or
\* AddEntry record
PrunesFilter(op, us, rs) ==
    \/ op \in {"update_current_entry_attributes", "delete_entry"}
    \/ \E r \in Range(Replayed(op, us, rs)) : r.kind \in {"ChangeAttribute", "AddEntry"}

\* What the code does keep: after every successful update of attributes and
\* every successful delete_entry, called directly or by an undo or redo that
\* replays a ChangeAttribute or an AddEntry record, the Filter has no Tag
\* criterion of a tag that no entry bears and is not present without criteria.
FilterPrunedAfterUpdateOrDelete ==
    [][ (PrunesFilter(lastOp', undo_stack, redo_stack) /\ result'.tag = "Ok")
        => FilterIsPruned(filter', entries') ]_vars

\* an update of attributes took tagB from its last bearer: of the criteria
\* Tag(tagA), Tag(tagB), Priority(1) the second is gone
FilterPrunedByUpdate ==
    /\ lastOp = "update_current_entry_attributes" /\ result.tag = "Ok"
    /\ filter = Some([criteria |-> << [kind |-> "Tag", val |-> TagA],
                                     [kind |-> "Priority", val |-> Some(1)] >>])

\* no entry precedes one that the Sorter places strictly before it
IsOrdered(srt, es) ==
    \A i, j \in 1..Len(es) : i < j => SorterSort(srt, es[i], es[j]) <= 0

\* C18: after every successful load_entries, add_entry, update of
\* attributes, update of content, delete_entry, undo, redo and apply_sort
\* the collection is ordered by the current Sorter: no entry precedes
\* another that the Sorter's comparison places strictly before it.
C18_OrderedAfterSuccess ==
    (/\ lastOp \in DirectOps \cup {"load_entries", "undo", "redo", "apply_sort"}
     /\ result.tag = "Ok")
    => IsOrdered(sorter, entries)

\* one pass over the collection from the first entry to the last, keeping
\* the ids of the entries that fail the Filter
RECURSIVE SequentialPass(_, _)
SequentialPass(f, es) ==
    IF es = <<>> THEN {}
    ELSE LET rest == SequentialPass(f, Tail(es))
         IN IF ~check_entry(f, es[1]) THEN {es[1].id} \cup rest ELSE rest

\* C19: the filtered-out set that the evaluation of the Filter yields with
\* the entries spread over any number of workers, finishing in any order,
\* is the set a sequential pass over the same collection and Filter yields.
C19_ParallelEqualsSequential ==
    par.state = "done" =>
        filtered_out_entries = SequentialPass(filter[1], entries)

\* two workers have each found an entry failing the Filter and joined
C19_Witness ==
    /\ par.state = "done"
    /\ par.workers = 2
    /\ par.part[1] # {} /\ par.part[2] # {}
    /\ Cardinality(filtered_out_entries) = 2

C21_ReplayedEntryExists ==
    [][ \A r \in Range(Replayed(lastOp', undo_stack, redo_stack)) :
          r.kind \in {"AddEntry", "ChangeAttribute", "ChangeContent"}
          => RecordId(r) \in Ids(entries) ]_vars

\* C22: undo does not restore the Filter: when the undo that follows a
\* successful delete_entry re-creates the deleted entry, the Filter stays as
\* the deletion left it (pruned of a Tag criterion, or discarded), and the
\* re-created entry is active exactly when there is no Filter or it meets
\* the Filter as pruned.
C22_UndoKeepsPrunedFilter ==
    [][ (/\ lastOp = "delete_entry" /\ result.tag = "Ok"
         /\ lastOp' = "undo" /\ result'.tag = "Ok")
        => /\ filter' = filter
           /\ result'.val # None
           /\ result'.val[1] \in Ids(entries')
           /\ LET e == EntryOf(entries', result'.val[1])
              IN (e.id \notin filtered_out_entries')
                 <=> (filter = None \/ check_entry(filter[1], e)) ]_vars

\* the deletion of the only entry pruned the Filter down to a criterion that
\* the entry does not meet: the undo has re-created it filtered out
C22_Witness ==
    /\ scene.phase = 3 /\ scene.pruned
    /\ lastOp = "undo" /\ result.tag = "Ok"
    /\ filter = Some([criteria |-> << [kind |-> "Priority", val |-> Some(1)] >>])
    /\ result.val[1] \in filtered_out_entries

\* C23: add_entry, delete_entry, the updates of attributes and content, undo
\* and redo leave current_entry_id and selected_entries as they were, also
\* when the deleted entry is the current or a selected one; after the
\* deletion of the current entry get_current_entry returns nothing while
\* current_entry_id still holds the deleted id.
C23_CursorAndSelectionKept ==
    [][ lastOp' \in DirectOps \cup {"undo", "redo"}
        => /\ current_entry_id' = current_entry_id
           /\ selected_entries' = selected_entries
           /\ (/\ current_entry_id # None
               /\ current_entry_id[1] \in Ids(entries)
               /\ current_entry_id[1] \notin Ids(entries'))
              => get_current_entry(App)' = None ]_vars

\* the entry under the cursor, which was selected too, has been deleted
C23_Witness ==
    /\ lastOp = "delete_entry" /\ result.tag = "Ok"
    /\ current_entry_id # None
    /\ current_entry_id[1] \notin Ids(entries)
    /\ current_entry_id[1] \in selected_entries
    /\ get_current_entry(App) = None

\* the undo stack after the undo calls of a row: one record less with every
\* call, and nothing done by the call that finds it empty
DrainedSoFar ==
    IF drain.made <= drain.start
    THEN Len(undo_stack) = drain.start - drain.made
    ELSE undo_stack = <<>> /\ result = OkVal(None)

\* C24: every undo call on a non-empty undo stack takes exactly one record
\* from it, whether the replay succeeds or the collaborator fails, so that
\* from a state with n records n undo calls in a row can be made and leave
\* the undo stack empty, and the next undo returns the 'no effect' result.
C24_UndoCallsDrainStack ==
    drain.made > 0 => (~panicked /\ DrainedSoFar)

\* What the code does keep: every undo call that takes a record, however it
\* ends, leaves the undo stack one record shorter.
UndoShrinksByOne ==
    drain.made > 0 => DrainedSoFar

=============================================================================
